---- MODULE Spec2Model ----
(***************************************************************************)
(* The Application layer (layer/app.py) and the Network layer              *)
(* (layer/net.py) of one device of the MinNE stack, with the datagram      *)
(* endpoints they are bound to.                                            *)
(*                                                                         *)
(* A Python str is a sequence of characters; a character is a one-element  *)
(* token ("h", "0", ...).  "e_acute" stands for U+00E9, a character whose  *)
(* UTF-8 encoding takes two bytes.                                         *)
(***************************************************************************)
EXTENDS Integers, Sequences, FiniteSets, TLC

\* ------------------------------------------------------------------ bounds

\* datagrams handed to the transport in one behaviour
MaxSends == 3
\* largest timeout (in clock ticks) passed to receive_from_phy
MaxTimeout == 2
\* longest text sent through the Network-Physical boundary
MaxTextLen == 2

\* ----------------------------------------------------------------- strings

Alphabet == {"0", "1", "h", "i", "e_acute"}

Digits19 == {"1", "2", "3", "4", "5", "6", "7", "8", "9"}

\* ord(): the code point of a character
Ord(c) ==
    CASE c = "0" -> 48
      [] c = "1" -> 49
      [] c = "h" -> 104
      [] c = "i" -> 105
      [] c = "e_acute" -> 233

\* chr(): the character of a code point
Chr(cp) == CHOOSE c \in Alphabet : Ord(c) = cp

IsCodePoint(cp) == \E c \in Alphabet : Ord(c) = cp

\* str.encode("utf-8") of one character: one byte below U+0080, two below U+0800
Utf8(cp) ==
    IF cp < 128 THEN <<cp>>
    ELSE <<192 + (cp \div 64), 128 + (cp % 64)>>

RECURSIVE encode(_)
encode(s) == IF s = <<>> THEN <<>> ELSE Utf8(Ord(Head(s))) \o encode(Tail(s))

\* one byte as eight characters, most significant bit first
ByteToBits(b) == [i \in 1..8 |-> IF (b \div (2 ^ (8 - i))) % 2 = 1 THEN "1" ELSE "0"]

RECURSIVE BytesToBits(_)
BytesToBits(bs) == IF bs = <<>> THEN <<>> ELSE ByteToBits(Head(bs)) \o BytesToBits(Tail(bs))

\* utils.coding.string_to_bits: the bit pattern of the text's byte encoding
string_to_bits(s) == BytesToBits(encode(s))

IsBits(b) == (Len(b) % 8 = 0) /\ (\A i \in 1..Len(b) : b[i] \in {"0", "1"})

RECURSIVE BitsToNat(_)
BitsToNat(b) ==
    IF b = <<>> THEN 0
    ELSE 2 * BitsToNat(SubSeq(b, 1, Len(b) - 1)) + (IF b[Len(b)] = "1" THEN 1 ELSE 0)

BitsToBytes(b) == [k \in 1..(Len(b) \div 8) |-> BitsToNat(SubSeq(b, 8 * k - 7, 8 * k))]

\* bytes.decode("utf-8"): the code points, or <<-1>> where the bytes are malformed
RECURSIVE decode(_)
decode(bs) ==
    IF bs = <<>> THEN <<>>
    ELSE IF Head(bs) < 128
         THEN LET rest == decode(Tail(bs))
              IN  IF rest = <<-1>> THEN <<-1>> ELSE <<Head(bs)>> \o rest
    ELSE IF Head(bs) >= 192 /\ Head(bs) < 224 /\ Len(bs) >= 2
            /\ bs[2] >= 128 /\ bs[2] < 192
         THEN LET rest == decode(Tail(Tail(bs)))
                  cp == (Head(bs) - 192) * 64 + (bs[2] - 128)
              IN  IF rest = <<-1>> \/ cp < 128 THEN <<-1>> ELSE <<cp>> \o rest
    ELSE <<-1>>

\* whether bits_to_string yields a text (otherwise the conversion raises)
Decodable(b) ==
    /\ IsBits(b)
    /\ decode(BitsToBytes(b)) # <<-1>>
    /\ \A i \in 1..Len(decode(BitsToBytes(b))) : IsCodePoint(decode(BitsToBytes(b))[i])

\* utils.coding.bits_to_string: the inverse of string_to_bits
bits_to_string(b) ==
    LET cps == decode(BitsToBytes(b)) IN [i \in 1..Len(cps) |-> Chr(cps[i])]

\* every text of at most n characters
RECURSIVE TextsUpTo(_)
TextsUpTo(n) ==
    IF n = 0 THEN {<<>>}
    ELSE TextsUpTo(n - 1) \cup
         {Append(s, c) : s \in {t \in TextsUpTo(n - 1) : Len(t) = n - 1}, c \in Alphabet}

\* -------------------------------------------------------------- addressing

DeviceIds == {<<d>> : d \in Digits19}

\* utils.io.get_device_map / AbstractLayer.get_config: the three addresses of a device
get_device_map(device_id) ==
    [app |-> <<"1">> \o device_id \o <<"3", "0", "0">>,
     net |-> <<"1">> \o device_id \o <<"2", "0", "0">>,
     phy |-> <<"1">> \o device_id \o <<"1", "0", "0">>]

\* AppLayer.__init__: the fields of an Application layer constructed for device_id
AppLayerInit(device_id) ==
    LET config == get_device_map(device_id)
    IN  [device_id |-> device_id, port |-> config.app, net |-> config.net]

\* NetLayer.__init__: the fields of a Network layer constructed for device_id
NetLayerInit(device_id) ==
    LET config == get_device_map(device_id)
    IN  [port |-> config.net, app |-> config.app, phy |-> config.phy]

\* the sender address a timed-out receive hands back
NoPort == <<"-", "1">>

\* the initial value of `port` in AppLayer.receive_from_net
NonePort == <<"None">>

\* netRet while no receive of the Network layer has returned since the last call
NoRet == [msg |-> <<>>, ok |-> FALSE]

\* netBits while send_to_phy has not evaluated string_to_bits(binary)
NoBits == <<"unset">>

\* Network.FLOW_INTERVAL, in clock ticks
FlowInterval == 2

\* an address bound by no layer of the device
ForeignAddrs == {<<"1", "9", "9", "9", "9">>}

\* ------------------------------------------------------------------- state

VARIABLES
    app_device_id,  \* AppLayer._device_id
    app_port,       \* AppLayer._port, the address the App endpoint is bound to
    app_net,        \* AppLayer._net
    net_port,       \* NetLayer._port, the address the Net endpoint is bound to
    net_app,        \* NetLayer.app
    net_phy,        \* NetLayer.phy
    inbox,          \* address -> datagrams queued at the endpoint bound to it
    sends,          \* datagrams handed to the transport so far
    appPc,          \* where the Application layer is
    appArg,         \* argument of the running/last send_to_net call
    appMessage,     \* local `message` of the running/last receive_from_net
    appPortVar,     \* local `port` of the running/last receive_from_net
    appLine,        \* the line last read from the console
    appInputType,   \* argument `input_type` of the running/last receive_from_user
    appRet,         \* value returned by receive_*, "" from a call until it returns
    appSent,        \* value returned by the last send_to_net
    netPc,          \* where the Network layer is
    netArg,         \* argument of the running/last send_to_* call
    netTimeout,     \* argument `timeout` of receive_from_phy
    netWaited,      \* ticks spent in the running receive_from_phy
    netMessage,     \* local `message` of receive_from_app, raw `binary` of receive_from_phy
    netPortVar,     \* local `port` of receive_from_app, `_` of receive_from_phy
    netRet,         \* value returned by receive_*, NoRet from a call until it returns
    netSent,        \* value returned by the last send_to_* call
    netSlept,       \* ticks spent in the sleep of the running/last send_to_phy
    netBits,        \* value of string_to_bits(binary) in send_to_phy, once evaluated
    sincePhyTx,     \* ticks since the last transmission to the phy address, at most FlowInterval
    phyLost         \* datagrams of the Physical layer discarded by receive_from_app

layerVars == <<app_device_id, app_port, app_net, net_port, net_app, net_phy>>
appVars == <<appPc, appArg, appMessage, appPortVar, appLine, appInputType, appRet, appSent>>
netAux == <<netSlept, netBits, sincePhyTx, phyLost>>
netVars == <<netPc, netArg, netTimeout, netWaited, netMessage, netPortVar, netRet, netSent, netAux>>
vars == <<layerVars, inbox, sends, appVars, netVars>>

\* the texts the layers of the transport specification exchange
Msgs == {<<"h", "i">>, <<"e_acute">>}

\* what a timed-out receive may hand back as payload (unspecified by the transport)
TimeoutRaw == {<<>>, string_to_bits(<<"h">>)}

InitFor(device_id) ==
    LET a == AppLayerInit(device_id)
        n == NetLayerInit(device_id)
    IN  /\ app_device_id = a.device_id
        /\ app_port = a.port
        /\ app_net = a.net
        /\ net_port = n.port
        /\ net_app = n.app
        /\ net_phy = n.phy
        /\ inbox = [p \in {a.port, n.port, n.phy} |-> <<>>]
        /\ sends = 0
        /\ appPc = "idle"
        /\ appArg = <<>>
        /\ appMessage = <<>>
        /\ appPortVar = NonePort
        /\ appLine = <<>>
        /\ appInputType = "none"
        /\ appRet = <<>>
        /\ appSent = 0
        /\ netPc = "idle"
        /\ netArg = <<>>
        /\ netTimeout = 0
        /\ netWaited = 0
        /\ netMessage = <<>>
        /\ netPortVar = NoPort
        /\ netRet = NoRet
        /\ netSent = 0
        /\ netSlept = 0
        /\ netBits = NoBits
        /\ sincePhyTx = FlowInterval
        /\ phyLost = 0

Init == \E device_id \in DeviceIds : InitFor(device_id)

\* --------------------------------------------------------------- transport

\* AbstractLayer._send: one datagram from `from` queued at the endpoint bound to
\* `to`, lost when nothing is bound there
Transmit(box, from, to, payload) ==
    IF to \in DOMAIN box
    THEN [box EXCEPT ![to] = Append(@, [src |-> from, payload |-> payload])]
    ELSE box

\* AbstractLayer._send returns the number of bytes sent
BytesSent(payload) == Len(encode(payload))

\* AbstractLayer._receive without timeout: the next datagram of the endpoint
\* (message, port, success); blocks while the queue is empty
CanReceive(port) == inbox[port] # <<>>
Received(port) ==
    [message |-> Head(inbox[port]).payload, port |-> Head(inbox[port]).src, success |-> TRUE]

AppReady == appPc \in {"idle", "ret_receive_from_net", "ret_send_to_net", "ret_receive_from_user"}
NetReady == netPc \in {"idle", "ret_send_to_app", "ret_receive_from_app",
                       "ret_send_to_phy", "ret_receive_from_phy"}

\* ------------------------------------------------------- Application layer

\* faulty variant of AppLoopContinues: the loop ends at the first datagram, whoever sent it
AppLoopContinues_AnySender(port) == port = NonePort

\* AppLayer.receive_from_net, the loop condition: keep receiving while the
\* sender is not the Network layer
AppLoopContinues(port) == port # app_net

\* AppLayer.send_to_net: the address the message is sent to
AppSendPeer == app_net

\* receive_from_net is called: port = None, and the loop is entered
AppCallReceiveFromNet ==
    /\ AppReady
    /\ AppLoopContinues(NonePort)
    /\ appPc' = "receive_from_net"
    /\ appPortVar' = NonePort
    /\ appMessage' = <<>>
    /\ appRet' = <<>>
    /\ UNCHANGED <<layerVars, inbox, sends, netVars>>
    /\ UNCHANGED <<appArg, appLine, appInputType, appSent>>

\* faulty variant of AppReceiveFromNet: a datagram that ends no loop is put back
\* at the end of the queue
AppReceiveFromNet_Requeue ==
    /\ appPc = "receive_from_net"
    /\ CanReceive(app_port)
    /\ LET r == Received(app_port)
       IN  /\ appMessage' = r.message
           /\ appPortVar' = r.port
           /\ IF AppLoopContinues(r.port)
              THEN /\ inbox' = [inbox EXCEPT ![app_port] = Append(Tail(@), Head(@))]
                   /\ UNCHANGED <<appPc, appRet>>
              ELSE /\ inbox' = [inbox EXCEPT ![app_port] = Tail(@)]
                   /\ appPc' = "ret_receive_from_net"
                   /\ appRet' = r.message
    /\ UNCHANGED <<layerVars, sends, netVars>>
    /\ UNCHANGED <<appArg, appLine, appInputType, appSent>>

\* one turn of the loop of receive_from_net: a datagram is received, and the call
\* returns its payload unless the loop goes on
AppReceiveFromNet ==
    /\ appPc = "receive_from_net"
    /\ CanReceive(app_port)
    /\ LET r == Received(app_port)
       IN  /\ inbox' = [inbox EXCEPT ![app_port] = Tail(@)]
           /\ appMessage' = r.message
           /\ appPortVar' = r.port
           /\ IF AppLoopContinues(r.port)
              THEN UNCHANGED <<appPc, appRet>>
              ELSE appPc' = "ret_receive_from_net" /\ appRet' = r.message
    /\ UNCHANGED <<layerVars, sends, netVars>>
    /\ UNCHANGED <<appArg, appLine, appInputType, appSent>>

\* send_to_net(message) is called
AppCallSendToNet(message) ==
    /\ AppReady
    /\ sends < MaxSends
    /\ appPc' = "send_to_net"
    /\ appArg' = message
    /\ appRet' = <<>>
    /\ appMessage' = <<>>
    /\ appPortVar' = NonePort
    /\ UNCHANGED <<layerVars, inbox, sends, netVars>>
    /\ UNCHANGED <<appLine, appInputType, appSent>>

\* send_to_net: return self._send(message, self._net)
AppSendToNet ==
    /\ appPc = "send_to_net"
    /\ inbox' = Transmit(inbox, app_port, AppSendPeer, appArg)
    /\ sends' = sends + 1
    /\ appSent' = BytesSent(appArg)
    /\ appPc' = "ret_send_to_net"
    /\ UNCHANGED <<layerVars, netVars>>
    /\ UNCHANGED <<appArg, appMessage, appPortVar, appLine, appInputType, appRet>>

\* ----------------------------------------------------------- Network layer

\* faulty variant of NetLoopContinues: a datagram of the Physical layer ends the loop too
NetLoopContinues_AppOrPhy(port) == port # net_app /\ port # net_phy

\* faulty variant of NetLoopContinues: no datagram ends the loop
NetLoopContinues_Forever(port) == TRUE

\* NetLayer.receive_from_app, the loop condition
NetLoopContinues(port) == port # net_app

\* faulty variant of NetAppPeer: the message goes down instead of up
NetAppPeer_Phy == net_phy

\* NetLayer.send_to_app: the address the message is sent to
NetAppPeer == net_app

\* NetLayer.send_to_phy: the address the bits are sent to
NetPhyPeer == net_phy

\* faulty variant of PhyPayload: the text is sent as it is
PhyPayload_Unconverted(binary) == binary

\* faulty variant of SleepDone: send_to_phy does not wait
SleepDone_NoSleep(slept) == TRUE

\* NetLayer.send_to_phy: sleep(Network.FLOW_INTERVAL) has returned
SleepDone(slept) == slept >= FlowInterval

\* the clock one tick later, as far as the pacing interval needs it
Later(since) == IF since < FlowInterval THEN since + 1 ELSE since

\* NetLayer.send_to_phy: what is transmitted for the argument `binary`
PhyPayload(binary) == string_to_bits(binary)

\* NetLayer.receive_from_phy: whether the conversion of the received value raises
ConversionRaises(binary, success) == success /\ ~Decodable(binary)

\* faulty variant of Converted: the conversion is applied whatever `success` is
Converted_Always(binary, success) == bits_to_string(binary)

\* NetLayer.receive_from_phy: binary = bits_to_string(binary) if success else binary
Converted(binary, success) == IF success THEN bits_to_string(binary) ELSE binary

\* send_to_app(message) is called
NetCallSendToApp(message) ==
    /\ NetReady
    /\ sends < MaxSends
    /\ netPc' = "send_to_app"
    /\ netArg' = message
    /\ netRet' = NoRet
    /\ netMessage' = <<>>
    /\ netPortVar' = NoPort
    /\ UNCHANGED <<layerVars, inbox, sends, appVars>>
    /\ UNCHANGED <<netTimeout, netWaited, netSent, netAux>>

\* send_to_app: return self._send(message, self.app)
NetSendToApp ==
    /\ netPc = "send_to_app"
    /\ inbox' = Transmit(inbox, net_port, NetAppPeer, netArg)
    /\ sends' = sends + 1
    /\ netSent' = BytesSent(netArg)
    /\ netPc' = "ret_send_to_app"
    /\ UNCHANGED <<layerVars, appVars>>
    /\ UNCHANGED <<netArg, netTimeout, netWaited, netMessage, netPortVar, netRet, netAux>>

\* receive_from_app is called: port = "-1", and the loop is entered
NetCallReceiveFromApp ==
    /\ NetReady
    /\ NetLoopContinues(NoPort)
    /\ netPc' = "receive_from_app"
    /\ netPortVar' = NoPort
    /\ netMessage' = <<>>
    /\ netRet' = NoRet
    /\ UNCHANGED <<layerVars, inbox, sends, appVars>>
    /\ UNCHANGED <<netArg, netTimeout, netWaited, netSent, netAux>>

\* one turn of the loop of receive_from_app
NetReceiveFromApp ==
    /\ netPc = "receive_from_app"
    /\ CanReceive(net_port)
    /\ LET r == Received(net_port)
       IN  /\ inbox' = [inbox EXCEPT ![net_port] = Tail(@)]
           /\ netMessage' = r.message
           /\ netPortVar' = r.port
           /\ IF NetLoopContinues(r.port)
              THEN UNCHANGED <<netPc, netRet>>
              ELSE /\ netPc' = "ret_receive_from_app"
                   /\ netRet' = [msg |-> r.message, ok |-> TRUE]
           /\ phyLost' = IF NetLoopContinues(r.port) /\ r.port = net_phy
                          THEN phyLost + 1 ELSE phyLost
    /\ UNCHANGED <<layerVars, sends, appVars>>
    /\ UNCHANGED <<netArg, netTimeout, netWaited, netSent>>
    /\ UNCHANGED <<netSlept, netBits, sincePhyTx>>

\* send_to_phy(binary) is called
NetCallSendToPhy(binary) ==
    /\ NetReady
    /\ sends < MaxSends
    /\ netPc' = "send_to_phy"
    /\ netArg' = binary
    /\ netRet' = NoRet
    /\ netMessage' = <<>>
    /\ netPortVar' = NoPort
    /\ netSlept' = 0
    /\ netBits' = NoBits
    /\ UNCHANGED <<layerVars, inbox, sends, appVars>>
    /\ UNCHANGED <<netTimeout, netWaited, netSent>>
    /\ UNCHANGED <<sincePhyTx, phyLost>>

\* send_to_phy: sleep(Network.FLOW_INTERVAL); a tick of the clock passes in it
NetSleep ==
    /\ netPc = "send_to_phy"
    /\ ~SleepDone(netSlept)
    /\ netSlept' = netSlept + 1
    /\ sincePhyTx' = Later(sincePhyTx)
    /\ UNCHANGED <<layerVars, inbox, sends, appVars>>
    /\ UNCHANGED <<netPc, netArg, netTimeout, netWaited, netMessage, netPortVar, netRet, netSent>>
    /\ UNCHANGED <<netBits, phyLost>>

\* send_to_phy, after the sleep:
\* return self._send(string_to_bits(binary), self.phy)
NetSendToPhy ==
    /\ netPc = "send_to_phy"
    /\ SleepDone(netSlept)
    /\ netBits' = PhyPayload(netArg)
    /\ inbox' = Transmit(inbox, net_port, NetPhyPeer, netBits')
    /\ sends' = sends + 1
    /\ netSent' = BytesSent(netBits')
    /\ sincePhyTx' = 0
    /\ netPc' = "ret_send_to_phy"
    /\ UNCHANGED <<layerVars, appVars>>
    /\ UNCHANGED <<netArg, netTimeout, netWaited, netMessage, netPortVar, netRet>>
    /\ UNCHANGED <<netSlept, phyLost>>

\* receive_from_phy(timeout) is called
NetCallReceiveFromPhy(timeout) ==
    /\ NetReady
    /\ netPc' = "receive_from_phy"
    /\ netTimeout' = timeout
    /\ netWaited' = 0
    /\ netRet' = NoRet
    /\ netMessage' = <<>>
    /\ netPortVar' = NoPort
    /\ UNCHANGED <<layerVars, inbox, sends, appVars>>
    /\ UNCHANGED <<netArg, netSent, netAux>>

\* time passes while receive_from_phy waits on an empty queue
Tick ==
    /\ netPc = "receive_from_phy"
    /\ ~CanReceive(net_port)
    /\ netWaited < netTimeout
    /\ netWaited' = netWaited + 1
    /\ sincePhyTx' = Later(sincePhyTx)
    /\ UNCHANGED <<layerVars, inbox, sends, appVars>>
    /\ UNCHANGED <<netPc, netArg, netTimeout, netMessage, netPortVar, netRet, netSent>>
    /\ UNCHANGED <<netSlept, netBits, phyLost>>

\* AbstractLayer._receive(timeout): the next datagram, or after `timeout` on an
\* empty queue a failure with an unspecified payload
TimedOutcomes(port, waited, timeout) ==
    IF CanReceive(port) THEN {Received(port)}
    ELSE IF waited >= timeout
         THEN {[message |-> raw, port |-> NoPort, success |-> FALSE] : raw \in TimeoutRaw}
         ELSE {}

\* faulty variant of NetReceiveFromPhy: a datagram that the phy address did not
\* send is dropped and the wait starts again
NetReceiveFromPhy_Loops ==
    /\ netPc = "receive_from_phy"
    /\ \E r \in TimedOutcomes(net_port, netWaited, netTimeout) :
          /\ inbox' = IF r.success THEN [inbox EXCEPT ![net_port] = Tail(@)] ELSE inbox
          /\ netMessage' = r.message
          /\ netPortVar' = r.port
          /\ IF r.success /\ r.port # net_phy
             THEN netWaited' = 0 /\ UNCHANGED <<netPc, netRet>>
             ELSE /\ UNCHANGED netWaited
                  /\ IF ConversionRaises(r.message, r.success)
                     THEN netPc' = "raised" /\ UNCHANGED netRet
                     ELSE /\ netPc' = "ret_receive_from_phy"
                          /\ netRet' = [msg |-> Converted(r.message, r.success),
                                        ok |-> r.success]
    /\ UNCHANGED <<layerVars, sends, appVars>>
    /\ UNCHANGED <<netArg, netTimeout, netSent, netAux>>

\* receive_from_phy: the single receive, the conversion and the return
NetReceiveFromPhy ==
    /\ netPc = "receive_from_phy"
    /\ \E r \in TimedOutcomes(net_port, netWaited, netTimeout) :
          /\ inbox' = IF r.success THEN [inbox EXCEPT ![net_port] = Tail(@)] ELSE inbox
          /\ netMessage' = r.message
          /\ netPortVar' = r.port
          /\ IF ConversionRaises(r.message, r.success)
             THEN netPc' = "raised" /\ UNCHANGED netRet
             ELSE /\ netPc' = "ret_receive_from_phy"
                  /\ netRet' = [msg |-> Converted(r.message, r.success), ok |-> r.success]
    /\ UNCHANGED <<layerVars, sends, appVars>>
    /\ UNCHANGED <<netArg, netTimeout, netWaited, netSent, netAux>>

\* ------------------------------------------------------------- environment

\* the Physical layer of the device sends a bit sequence up to the Net endpoint
PhySend(bits) ==
    /\ sends < MaxSends
    /\ inbox' = Transmit(inbox, net_phy, net_port, bits)
    /\ sends' = sends + 1
    /\ UNCHANGED <<layerVars, appVars, netVars>>

\* the Physical layer hands a payload it received from the Network layer back,
\* unaltered, to the Net endpoint
PhyRelay ==
    /\ inbox[net_phy] # <<>>
    /\ inbox' = Transmit([inbox EXCEPT ![net_phy] = Tail(@)], net_phy, net_port,
                         Head(inbox[net_phy]).payload)
    /\ UNCHANGED <<layerVars, sends, appVars, netVars>>

\* a process bound to another address sends to an endpoint of the device
ForeignSend(from, to, payload) ==
    /\ sends < MaxSends
    /\ inbox' = Transmit(inbox, from, to, payload)
    /\ sends' = sends + 1
    /\ UNCHANGED <<layerVars, appVars, netVars>>

\* ----------------------------------------------------------- console input

\* what the user may type at a prompt
ConsoleLines ==
    DeviceIds \cup {<<>>, <<"0">>, <<"a">>, <<" ">>, <<"1", "2">>, <<"1", "0">>, <<"-", "1">>}

\* fullmatch(r"[1-9]", device_id)
DstMatches(device_id) == Len(device_id) = 1 /\ device_id[1] \in Digits19

\* faulty variant of DstIsSelf: the own identifier is not recognised
DstIsSelf_Never(device_id) == FALSE

\* device_id == self._device_id
DstIsSelf(device_id) == device_id = app_device_id

\* faulty variant of DstAddress: the address is built from the local identifier
DstAddress_Local(device_id) == <<"1">> \o app_device_id \o <<"3", "0", "0">>

\* faulty variant of DstAddress: the layer offset of the Network layer is used
DstAddress_NetOffset(device_id) == <<"1">> \o device_id \o <<"2", "0", "0">>

\* f"1{device_id}300"
DstAddress(device_id) == <<"1">> \o device_id \o <<"3", "0", "0">>

\* receive_from_user(InputType.DST) is called: _get_dst_from_user prints its prompt
AppCallGetDstFromUser ==
    /\ AppReady
    /\ appPc' = "get_dst_from_user"
    /\ appInputType' = "DST"
    /\ appLine' = <<>>
    /\ appRet' = <<>>
    /\ appMessage' = <<>>
    /\ appPortVar' = NonePort
    /\ UNCHANGED <<layerVars, inbox, sends, netVars>>
    /\ UNCHANGED <<appArg, appSent>>

\* faulty variant of AppGetDstFromUser: the accepted destination also replaces
\* the layer's own device identifier
AppGetDstFromUser_Rebinds(line) ==
    /\ appPc = "get_dst_from_user"
    /\ appLine' = line
    /\ IF ~DstMatches(line) \/ DstIsSelf(line)
       THEN UNCHANGED <<appPc, appRet, app_device_id>>
       ELSE /\ appPc' = "ret_receive_from_user"
            /\ appRet' = DstAddress(line)
            /\ app_device_id' = line
    /\ UNCHANGED <<app_port, app_net, net_port, net_app, net_phy>>
    /\ UNCHANGED <<inbox, sends, netVars>>
    /\ UNCHANGED <<appArg, appMessage, appPortVar, appInputType, appSent>>

\* one turn of the loop of _get_dst_from_user: a line is read, then rejected with
\* a warning or expanded and returned
AppGetDstFromUser(line) ==
    /\ appPc = "get_dst_from_user"
    /\ appLine' = line
    /\ IF ~DstMatches(line) \/ DstIsSelf(line)
       THEN UNCHANGED <<appPc, appRet>>
       ELSE appPc' = "ret_receive_from_user" /\ appRet' = DstAddress(line)
    /\ UNCHANGED <<layerVars, inbox, sends, netVars>>
    /\ UNCHANGED <<appArg, appMessage, appPortVar, appInputType, appSent>>

\* utils.constant.Mode.LIST: the codes of Receive, Unicast, Broadcast, Quit
ModeList == {<<"1">>, <<"2">>, <<"3">>, <<"4">>}

\* utils.constant.MessageType.LIST: the codes of Text, File
MessageTypeList == {<<"1">>, <<"2">>}

\* the names of the files the resource directory holds
RscFiles == {<<"a">>, <<"1", "2">>}

\* search_rsc found nothing
NoPath == <<"None">>

\* utils.io.search_rsc: the absolute path of a resource, or None
search_rsc(filename) ==
    IF filename \in RscFiles THEN <<"/", "r", "s", "c", "/">> \o filename ELSE NoPath

\* _get_mode_from_user: mode in Mode.LIST
ModeValid(mode) == mode \in ModeList

\* _get_msgtype_from_user: msgtype in MessageType.LIST
MsgtypeValid(msgtype) == msgtype \in MessageTypeList

\* faulty variant of TextValid: an empty line is taken as a message
TextValid_AcceptsEmpty(message) == TRUE

\* _get_text_from_user: message != ""
TextValid(message) == message # <<>>

\* _get_file_from_user: filepath != None
FileValid(filepath) == filepath # NoPath

\* the categories receive_from_user dispatches on, and the loop each one runs
InputTypes == {"MODE", "MSGTYPE", "TEXT", "FILE"}
PromptPc(input_type) ==
    CASE input_type = "MODE" -> "get_mode_from_user"
      [] input_type = "MSGTYPE" -> "get_msgtype_from_user"
      [] input_type = "TEXT" -> "get_text_from_user"
      [] input_type = "FILE" -> "get_file_from_user"

\* receive_from_user(input_type) is called for a category other than DST: the
\* method of the category prints its prompt
AppCallReceiveFromUser(input_type) ==
    /\ AppReady
    /\ appPc' = PromptPc(input_type)
    /\ appInputType' = input_type
    /\ appLine' = <<>>
    /\ appRet' = <<>>
    /\ appMessage' = <<>>
    /\ appPortVar' = NonePort
    /\ UNCHANGED <<layerVars, inbox, sends, netVars>>
    /\ UNCHANGED <<appArg, appSent>>

\* receive_from_user with an input_type that is none of the five: return ""
AppReceiveFromUserOther ==
    /\ AppReady
    /\ appPc' = "ret_receive_from_user"
    /\ appInputType' = "OTHER"
    /\ appLine' = <<>>
    /\ appRet' = <<>>
    /\ appMessage' = <<>>
    /\ appPortVar' = NonePort
    /\ UNCHANGED <<layerVars, inbox, sends, netVars>>
    /\ UNCHANGED <<appArg, appSent>>

\* a line is read by the loop at `pc`; it is returned as `value` if `valid`
PromptTurn(pc, line, valid, value) ==
    /\ appPc = pc
    /\ appLine' = line
    /\ IF valid
       THEN appPc' = "ret_receive_from_user" /\ appRet' = value
       ELSE UNCHANGED <<appPc, appRet>>
    /\ UNCHANGED <<layerVars, inbox, sends, netVars>>
    /\ UNCHANGED <<appArg, appMessage, appPortVar, appInputType, appSent>>

\* one turn of the loop of _get_mode_from_user
AppGetModeFromUser(mode) == PromptTurn("get_mode_from_user", mode, ModeValid(mode), mode)

\* one turn of the loop of _get_msgtype_from_user
AppGetMsgtypeFromUser(msgtype) ==
    PromptTurn("get_msgtype_from_user", msgtype, MsgtypeValid(msgtype), msgtype)

\* one turn of the loop of _get_text_from_user
AppGetTextFromUser(message) ==
    PromptTurn("get_text_from_user", message, TextValid(message), message)

\* one turn of the loop of _get_file_from_user
AppGetFileFromUser(filename) ==
    LET filepath == search_rsc(filename)
    IN  PromptTurn("get_file_from_user", filename, FileValid(filepath), filepath)

\* ---------------------------------------------------------- specifications

BitMsgs == {string_to_bits(m) : m \in Msgs}

\* what a process at a foreign address sends: a text and a bit sequence
ForeignPayloads == {<<"h", "i">>, string_to_bits(<<"i">>)}

\* the devices the transport specifications are run for
TransportIds == {<<"1">>, <<"2">>}

InitTransport == \E device_id \in TransportIds : InitFor(device_id)

\* The Application layer receiving, with everything that sends to its endpoint.
NextApp ==
    \/ AppCallReceiveFromNet
    \/ AppReceiveFromNet
    \/ \E m \in Msgs : NetCallSendToApp(m)
    \/ NetSendToApp
    \/ \E from \in ForeignAddrs \cup {net_phy}, p \in ForeignPayloads :
          ForeignSend(from, app_port, p)

SpecApp == InitTransport /\ [][NextApp]_vars

\* The Network layer receiving, with everything that sends to its endpoint.
NextNet ==
    \/ NetCallReceiveFromApp
    \/ NetReceiveFromApp
    \/ \E t \in 1..MaxTimeout : NetCallReceiveFromPhy(t)
    \/ Tick
    \/ NetReceiveFromPhy
    \/ \E m \in Msgs : AppCallSendToNet(m)
    \/ AppSendToNet
    \/ \E b \in BitMsgs : PhySend(b)
    \/ \E from \in ForeignAddrs, p \in ForeignPayloads : ForeignSend(from, net_port, p)

SpecNet == InitTransport /\ [][NextNet]_vars

\* The send operations of both layers.
NextSend ==
    \/ \E m \in Msgs : AppCallSendToNet(m)
    \/ AppSendToNet
    \/ \E m \in Msgs : NetCallSendToApp(m)
    \/ NetSendToApp
    \/ \E m \in Msgs : NetCallSendToPhy(m)
    \/ NetSleep
    \/ NetSendToPhy

SpecSend == InitTransport /\ [][NextSend]_vars

\* The prompts of the Application layer, on every device.
NextUser ==
    \/ AppCallGetDstFromUser
    \/ \E line \in ConsoleLines : AppGetDstFromUser(line)
    \/ \E input_type \in InputTypes : AppCallReceiveFromUser(input_type)
    \/ AppReceiveFromUserOther
    \/ \E line \in ConsoleLines : AppGetModeFromUser(line)
    \/ \E line \in ConsoleLines : AppGetMsgtypeFromUser(line)
    \/ \E line \in ConsoleLines : AppGetTextFromUser(line)
    \/ \E line \in ConsoleLines : AppGetFileFromUser(line)

SpecUser == Init /\ [][NextUser]_vars

\* no datagram is queued anywhere
Quiet == \A p \in DOMAIN inbox : inbox[p] = <<>>

\* One text at a time through the Network-Physical boundary and back: send_to_phy,
\* the Physical layer handing the payload back unaltered, receive_from_phy.
NextCodec ==
    \/ \E s \in TextsUpTo(MaxTextLen) : Quiet /\ NetCallSendToPhy(s)
    \/ NetSleep
    \/ NetSendToPhy
    \/ PhyRelay
    \/ \E t \in 1..MaxTimeout : NetCallReceiveFromPhy(t)
    \/ Tick
    \/ NetReceiveFromPhy

SpecCodec == InitTransport /\ [][NextCodec]_vars

\* the lines typed at the prompts while both layers run
LayerLines == {<<>>, <<"1">>, <<"a">>}

\* Every operation of both layers of one device, the Physical layer relaying.
NextLayers ==
    \/ AppCallReceiveFromNet
    \/ AppReceiveFromNet
    \/ AppCallSendToNet(<<"h", "i">>)
    \/ AppSendToNet
    \/ AppCallGetDstFromUser
    \/ \E line \in LayerLines : AppGetDstFromUser(line)
    \/ \E input_type \in InputTypes : AppCallReceiveFromUser(input_type)
    \/ AppReceiveFromUserOther
    \/ \E line \in LayerLines : AppGetModeFromUser(line)
    \/ \E line \in LayerLines : AppGetMsgtypeFromUser(line)
    \/ \E line \in LayerLines : AppGetTextFromUser(line)
    \/ \E line \in LayerLines : AppGetFileFromUser(line)
    \/ NetCallSendToApp(<<"h", "i">>)
    \/ NetSendToApp
    \/ NetCallReceiveFromApp
    \/ NetReceiveFromApp
    \/ NetCallSendToPhy(<<"h", "i">>)
    \/ NetSleep
    \/ NetSendToPhy
    \/ NetCallReceiveFromPhy(1)
    \/ Tick
    \/ NetReceiveFromPhy
    \/ PhyRelay

SpecLayers == InitFor(<<"2">>) /\ [][NextLayers]_vars

\* what is sent to the endpoints while both filtering receives run
LoopSenders == ForeignAddrs \cup {net_phy}

\* The filtering receives of both layers, each layer also sending to the other,
\* the Physical layer and a foreign process sending to both endpoints.
NextLoops ==
    \/ AppCallReceiveFromNet
    \/ AppReceiveFromNet
    \/ AppCallSendToNet(<<"h", "i">>)
    \/ AppSendToNet
    \/ NetCallReceiveFromApp
    \/ NetReceiveFromApp
    \/ NetCallSendToApp(<<"e_acute">>)
    \/ NetSendToApp
    \/ \E from \in LoopSenders, to \in {app_port, net_port} :
          ForeignSend(from, to, string_to_bits(<<"i">>))

SpecLoops == InitFor(<<"1">>) /\ [][NextLoops]_vars

\* a blocked receive resumes once a datagram is queued at its endpoint
SpecLoopsFair == SpecLoops /\ WF_vars(AppReceiveFromNet) /\ WF_vars(NetReceiveFromApp)

\* ------------------------------------------------------------ construction

\* a field not assigned yet, an endpoint not bound yet
Unset == <<"unset">>

\* the identifiers a layer may be constructed with: the nine of the device
\* map and some it does not hold
CtorIds == DeviceIds \cup {<<"0">>, <<"a">>, <<"1", "0">>}

\* utils.io.get_device_map finds the device: otherwise it raises
ConfigFound(device_id) == device_id \in DeviceIds

\* AbstractLayer.__init__(port): the endpoint `port` is bound
Bound(box, port) ==
    [p \in DOMAIN box \cup {port} |-> IF p \in DOMAIN box THEN box[p] ELSE <<>>]

\* before either layer is constructed
InitCtor ==
    /\ app_device_id = Unset
    /\ app_port = Unset
    /\ app_net = Unset
    /\ net_port = Unset
    /\ net_app = Unset
    /\ net_phy = Unset
    /\ inbox = [p \in {} |-> <<>>]
    /\ sends = 0
    /\ appPc = "new"
    /\ appArg = <<>>
    /\ appMessage = <<>>
    /\ appPortVar = NonePort
    /\ appLine = <<>>
    /\ appInputType = "none"
    /\ appRet = <<>>
    /\ appSent = 0
    /\ netPc = "new"
    /\ netArg = <<>>
    /\ netTimeout = 0
    /\ netWaited = 0
    /\ netMessage = <<>>
    /\ netPortVar = NoPort
    /\ netRet = NoRet
    /\ netSent = 0
    /\ netSlept = 0
    /\ netBits = NoBits
    /\ sincePhyTx = FlowInterval
    /\ phyLost = 0

\* AppLayer(device_id): self._device_id = device_id
AppLayerNew(device_id) ==
    /\ appPc = "new"
    /\ appArg' = device_id
    /\ app_device_id' = device_id
    /\ appPc' = "init_lookup"
    /\ UNCHANGED <<app_port, app_net, net_port, net_app, net_phy>>
    /\ UNCHANGED <<inbox, sends, netVars>>
    /\ UNCHANGED <<appMessage, appPortVar, appLine, appInputType, appRet, appSent>>

\* AppLayer.__init__: config = get_device_map(device_id)
AppLayerLookup ==
    /\ appPc = "init_lookup"
    /\ appPc' = IF ConfigFound(appArg) THEN "init_bind" ELSE "raised"
    /\ UNCHANGED <<layerVars, inbox, sends, netVars>>
    /\ UNCHANGED <<appArg, appMessage, appPortVar, appLine, appInputType, appRet, appSent>>

\* AppLayer.__init__: super().__init__(config["app"])
AppLayerBind ==
    /\ appPc = "init_bind"
    /\ app_port' = AppLayerInit(appArg).port
    /\ inbox' = Bound(inbox, app_port')
    /\ appPc' = "init_record"
    /\ UNCHANGED <<app_device_id, app_net, net_port, net_app, net_phy>>
    /\ UNCHANGED <<sends, netVars>>
    /\ UNCHANGED <<appArg, appMessage, appPortVar, appLine, appInputType, appRet, appSent>>

\* AppLayer.__init__: self._net = config["net"]
AppLayerRecord ==
    /\ appPc = "init_record"
    /\ app_net' = AppLayerInit(appArg).net
    /\ appPc' = "idle"
    /\ UNCHANGED <<app_device_id, app_port, net_port, net_app, net_phy>>
    /\ UNCHANGED <<inbox, sends, netVars>>
    /\ UNCHANGED <<appArg, appMessage, appPortVar, appLine, appInputType, appRet, appSent>>

\* faulty variant of NetLayerNew: the endpoint is bound before the device is
\* looked up
NetLayerNew_BindsFirst(device_id) ==
    /\ netPc = "new"
    /\ netArg' = device_id
    /\ net_port' = NetLayerInit(device_id).port
    /\ inbox' = Bound(inbox, net_port')
    /\ netPc' = "init_lookup"
    /\ UNCHANGED <<app_device_id, app_port, app_net, net_app, net_phy>>
    /\ UNCHANGED <<sends, appVars>>
    /\ UNCHANGED <<netTimeout, netWaited, netMessage, netPortVar, netRet, netSent, netAux>>

\* NetLayer(device_id) is called
NetLayerNew(device_id) ==
    /\ netPc = "new"
    /\ netArg' = device_id
    /\ netPc' = "init_lookup"
    /\ UNCHANGED <<layerVars, inbox, sends, appVars>>
    /\ UNCHANGED <<netTimeout, netWaited, netMessage, netPortVar, netRet, netSent, netAux>>

\* NetLayer.__init__: config = super().get_config(device_id)
NetLayerLookup ==
    /\ netPc = "init_lookup"
    /\ netPc' = IF ConfigFound(netArg) THEN "init_bind" ELSE "raised"
    /\ UNCHANGED <<layerVars, inbox, sends, appVars>>
    /\ UNCHANGED <<netArg, netTimeout, netWaited, netMessage, netPortVar, netRet, netSent, netAux>>

\* NetLayer.__init__: super().__init__(config["net"])
NetLayerBind ==
    /\ netPc = "init_bind"
    /\ net_port' = NetLayerInit(netArg).port
    /\ inbox' = Bound(inbox, net_port')
    /\ netPc' = "init_record"
    /\ UNCHANGED <<app_device_id, app_port, app_net, net_app, net_phy>>
    /\ UNCHANGED <<sends, appVars>>
    /\ UNCHANGED <<netArg, netTimeout, netWaited, netMessage, netPortVar, netRet, netSent, netAux>>

\* NetLayer.__init__: self.app = config["app"]; self.phy = config["phy"]
NetLayerRecord ==
    /\ netPc = "init_record"
    /\ net_app' = NetLayerInit(netArg).app
    /\ net_phy' = NetLayerInit(netArg).phy
    /\ netPc' = "idle"
    /\ UNCHANGED <<app_device_id, app_port, app_net, net_port>>
    /\ UNCHANGED <<inbox, sends, appVars>>
    /\ UNCHANGED <<netArg, netTimeout, netWaited, netMessage, netPortVar, netRet, netSent, netAux>>

\* The construction of the two layers, each with an identifier of its own.
NextCtor ==
    \/ \E device_id \in CtorIds : AppLayerNew(device_id)
    \/ AppLayerLookup
    \/ AppLayerBind
    \/ AppLayerRecord
    \/ \E device_id \in CtorIds : NetLayerNew(device_id)
    \/ NetLayerLookup
    \/ NetLayerBind
    \/ NetLayerRecord

SpecCtor == InitCtor /\ [][NextCtor]_vars

\* ------------------------------------------------------------------ claims

\* the step in which a running call of the Application layer returns
AppReturns(op) == appPc = op /\ appPc' # op
\* the step in which a running call of the Network layer returns or raises
NetLeaves(op) == netPc = op /\ netPc' # op

\* C1: whenever receive_from_net returns, the datagram it took from the App
\* endpoint was sent from the Network-layer address bound at construction, and the
\* value returned is that datagram's payload.
C1_ReceiveFromNetPeerIsolation ==
    [][AppReturns("receive_from_net") =>
          /\ inbox[app_port] # <<>>
          /\ Head(inbox[app_port]).src = AppLayerInit(app_device_id).net
          /\ appRet' = Head(inbox[app_port]).payload]_vars

\* C1 witness: receive_from_net has returned a message of the Network layer while
\* a datagram of a foreign sender is queued at the App endpoint.
C1_Witness ==
    /\ appPc = "ret_receive_from_net"
    /\ appRet = <<"h", "i">>
    /\ appPortVar = app_net
    /\ inbox[app_port] # <<>>
    /\ Head(inbox[app_port]).src \in ForeignAddrs

\* C2: whenever receive_from_app returns, the datagram it took from the Net
\* endpoint was sent from the bound app address (not from the phy address nor from
\* any other address), and the value returned is that datagram's payload.
C2_ReceiveFromAppPeerIsolation ==
    [][NetLeaves("receive_from_app") =>
          /\ inbox[net_port] # <<>>
          /\ Head(inbox[net_port]).src = get_device_map(app_device_id).app
          /\ Head(inbox[net_port]).src \notin {net_phy} \cup ForeignAddrs
          /\ netPc' = "ret_receive_from_app"
          /\ netRet' = [msg |-> Head(inbox[net_port]).payload, ok |-> TRUE]]_vars

\* C2 witness: receive_from_app has returned a message of the app while datagrams
\* of the Physical layer and of a foreign sender are queued at the Net endpoint.
C2_Witness ==
    /\ netPc = "ret_receive_from_app"
    /\ netRet.msg \in Msgs
    /\ netPortVar = net_app
    /\ \E i, j \in 1..Len(inbox[net_port]) :
          /\ inbox[net_port][i].src = net_phy
          /\ inbox[net_port][j].src \in ForeignAddrs

\* C3 (as claimed): a receive_from_phy that reports success received a datagram
\* whose sender is the Physical-layer address.
C3_SuccessOnlyFromPhy ==
    (netPc = "ret_receive_from_phy" /\ netRet.ok) => netPortVar = net_phy

\* the payload of the first queued datagram satisfying `from`, given there is one
FirstFrom(queue, from) ==
    queue[CHOOSE i \in 1..Len(queue) :
            /\ queue[i].src = from
            /\ \A j \in 1..(i - 1) : queue[j].src # from].payload

\* C4 (as claimed): when receive_from_phy ends while a datagram of the Physical
\* layer carrying a valid bit sequence b is queued at the Net endpoint, it returns
\* (bits_to_string(b), True) for the first such b.
C4_ReturnsDecodedPhyPayload ==
    [][(/\ NetLeaves("receive_from_phy")
        /\ \E i \in 1..Len(inbox[net_port]) : inbox[net_port][i].src = net_phy)
       =>
          /\ netPc' = "ret_receive_from_phy"
          /\ netRet' = [msg |-> bits_to_string(FirstFrom(inbox[net_port], net_phy)),
                        ok |-> TRUE]]_vars

\* C5: a receive_from_phy whose receive times out returns normally with
\* success=false and the raw value of the receive; whenever the call returns, the
\* value is bits_to_string of the raw value if success and the raw value otherwise.
C5_TimeoutReturnsRaw ==
    [][NetLeaves("receive_from_phy") =>
          /\ inbox[net_port] = <<>> =>
                /\ netPc' = "ret_receive_from_phy"
                /\ netRet'.ok = FALSE
                /\ netMessage' \in TimeoutRaw
                /\ netRet'.msg = netMessage'
          /\ netPc' = "ret_receive_from_phy" =>
                /\ netRet'.ok => netRet'.msg = bits_to_string(netMessage')
                /\ ~netRet'.ok => netRet'.msg = netMessage'
                /\ netRet'.ok <=> inbox[net_port] # <<>>]_vars

\* C5 witness: receive_from_phy has timed out and handed back, unconverted, a raw
\* value that the conversion would have changed.
C5_Witness ==
    /\ netPc = "ret_receive_from_phy"
    /\ ~netRet.ok
    /\ netWaited = netTimeout
    /\ netRet.msg = string_to_bits(<<"h">>)
    /\ bits_to_string(netRet.msg) # netRet.msg

\* receive_from_user(input_type) has returned
ReturnedFromUser(input_type) == appPc = "ret_receive_from_user" /\ appInputType = input_type

\* the lines _get_dst_from_user accepts on the device `self`
AcceptedDst(self) == {<<d>> : d \in Digits19} \ {self}

\* C6: while _get_dst_from_user is prompting, every line read so far (empty,
\* non-digit, multi-character, "0" or the own identifier) was rejected; it returns
\* exactly on one of the other eight single digits, and never the app address of
\* the local device.
C6_DstValidation ==
    /\ appPc = "get_dst_from_user" => appLine \notin AcceptedDst(app_device_id)
    /\ ReturnedFromUser("DST") =>
          /\ appLine \in AcceptedDst(app_device_id)
          /\ appRet # get_device_map(app_device_id).app
          /\ appRet # app_port

\* C6 witness: the user typed the identifier of the local device and is prompted
\* again.
C6_Witness ==
    /\ appPc = "get_dst_from_user"
    /\ appLine = app_device_id
    /\ appRet = <<>>

\* C7: receive_from_user(InputType.DST) returns "1", the accepted identifier and
\* "300" concatenated.
C7_DstFormula ==
    ReturnedFromUser("DST") =>
        /\ Len(appRet) = 5
        /\ appRet[1] = "1"
        /\ <<appRet[2]>> = appLine
        /\ SubSeq(appRet, 3, 5) = <<"3", "0", "0">>

\* C7 witness: device "1", the user entered "2", the call returned "12300".
C7_Witness ==
    /\ appPc = "ret_receive_from_user"
    /\ app_device_id = <<"1">>
    /\ appLine = <<"2">>
    /\ appRet = <<"1", "2", "3", "0", "0">>

C9_RoundTrip ==
    [][(NetLeaves("receive_from_phy") /\ inbox[net_port] # <<>>) =>
          /\ Head(inbox[net_port]).src = net_phy
          /\ netPc' = "ret_receive_from_phy"
          /\ netRet' = [msg |-> netArg, ok |-> TRUE]]_vars

\* C9 witness: a text holding a one-byte and a two-byte character came back from
\* the Physical layer.
C9_Witness ==
    /\ netPc = "ret_receive_from_phy"
    /\ netRet = [msg |-> <<"h", "e_acute">>, ok |-> TRUE]
    /\ netArg = <<"h", "e_acute">>
    /\ Len(netMessage) = 24

\* the queues with one datagram more, from `from`, at the endpoint `to`
OneMoreAt(to, from) ==
    /\ to \in DOMAIN inbox
    /\ \A p \in DOMAIN inbox \ {to} : inbox'[p] = inbox[p]
    /\ Len(inbox'[to]) = Len(inbox[to]) + 1
    /\ SubSeq(inbox'[to], 1, Len(inbox[to])) = inbox[to]
    /\ inbox'[to][Len(inbox'[to])].src = from

\* C10: send_to_net(m) queues exactly one datagram, carrying m, at the bound
\* Network-layer address; send_to_app(m) exactly one, carrying m, at the bound app
\* address; send_to_phy exactly one, at the bound phy address; nothing is queued
\* anywhere else, and nothing when a send is only called.
C10_SendsToBoundPeer ==
    [][/\ AppReturns("send_to_net") =>
             /\ OneMoreAt(AppLayerInit(app_device_id).net, app_port)
             /\ inbox'[app_net][Len(inbox'[app_net])].payload = appArg
       /\ NetLeaves("send_to_app") =>
             /\ OneMoreAt(NetLayerInit(app_device_id).app, net_port)
             /\ inbox'[net_app][Len(inbox'[net_app])].payload = netArg
       /\ NetLeaves("send_to_phy") => OneMoreAt(NetLayerInit(app_device_id).phy, net_port)
       /\ ~(AppReturns("send_to_net") \/ NetLeaves("send_to_app")
            \/ NetLeaves("send_to_phy")) => inbox' = inbox]_vars

\* C10 witness: each of the three sends has been performed once, and each of the
\* three endpoints holds the one datagram addressed to it.
C10_Witness ==
    /\ appPc = "ret_send_to_net"
    /\ netPc \in {"ret_send_to_app", "ret_send_to_phy"}
    /\ inbox[net_port] = <<[src |-> app_port, payload |-> appArg]>>
    /\ Len(inbox[app_port]) = 1
    /\ Head(inbox[app_port]).src = net_port
    /\ Len(inbox[net_phy]) = 1
    /\ Head(inbox[net_phy]).src = net_port

\* C12: while a prompt of receive_from_user is open, no valid line has been read
\* (the call returns at the first valid one), and what it returns is valid: a
\* Mode result is one of the four mode codes, a message-kind result one of the
\* two codes, a text non-empty, a file result the path the lookup resolved and
\* never the absent result.
C12_PromptsReturnFirstValid ==
    /\ appPc = "get_mode_from_user" => appLine \notin ModeList
    /\ appPc = "get_msgtype_from_user" => appLine \notin MessageTypeList
    /\ appPc = "get_text_from_user" => appLine = <<>>
    /\ appPc = "get_file_from_user" => appLine \notin RscFiles
    /\ ReturnedFromUser("MODE") => appRet \in ModeList /\ appRet = appLine
    /\ ReturnedFromUser("MSGTYPE") => appRet \in MessageTypeList /\ appRet = appLine
    /\ ReturnedFromUser("TEXT") => appRet # <<>> /\ appRet = appLine
    /\ ReturnedFromUser("FILE") =>
          /\ appLine \in RscFiles
          /\ appRet = <<"/", "r", "s", "c", "/">> \o appLine
          /\ appRet # NoPath

\* C12 witness: the file prompt has returned the path of a resource that exists.
C12_Witness ==
    /\ ReturnedFromUser("FILE")
    /\ appLine = <<"1", "2">>
    /\ appRet = <<"/", "r", "s", "c", "/", "1", "2">>

\* C11: no step of any operation of either layer changes what construction
\* bound: the Application layer's own address, its device identifier and its
\* recorded net address, the Network layer's own address and its recorded app
\* and phy addresses stay those of the device configuration.
C11_PeerBindingImmutable ==
    [][/\ layerVars' = layerVars
       /\ <<app_device_id', app_port', app_net'>> =
             <<app_device_id, get_device_map(app_device_id).app,
               get_device_map(app_device_id).net>>
       /\ <<net_port', net_app', net_phy'>> =
             <<get_device_map(app_device_id).net, get_device_map(app_device_id).app,
               get_device_map(app_device_id).phy>>]_vars

\* C11 witness: both layers have sent, received and prompted, and the device is
\* still bound as constructed.
C11_Witness ==
    /\ ReturnedFromUser("DST")
    /\ netPc = "ret_receive_from_phy"
    /\ netRet.ok
    /\ sends = MaxSends
    /\ app_net = net_port
    /\ net_app = app_port

\* C13: a send_to_phy transmits only after it has waited the whole pacing
\* interval, whatever the message, so that at every transmission to the phy
\* address at least the interval has passed since the previous one; send_to_app
\* waits for nothing: no time is spent in it, and its one step is the transmission.
C13_Pacing ==
    [][/\ NetLeaves("send_to_phy") =>
             /\ netSlept >= FlowInterval
             /\ sincePhyTx >= FlowInterval
             /\ sincePhyTx' = 0
       /\ netPc = "send_to_app" =>
             /\ netSlept' = netSlept
             /\ sincePhyTx' = sincePhyTx
             /\ netVars' # netVars => OneMoreAt(net_app, net_port)]_vars

\* C13 witness: a second send_to_phy has just transmitted, after its own wait.
C13_Witness ==
    /\ netPc = "ret_send_to_phy"
    /\ Len(inbox[net_phy]) = 2
    /\ netSlept = FlowInterval
    /\ sincePhyTx = 0

\* C17 as stated: once the pacing delay of a send_to_phy has begun, the payload
\* has already been converted to its bit sequence.
C17_ConvertsBeforeDelay ==
    netPc = "send_to_phy" /\ netSlept > 0 => netBits = string_to_bits(netArg)

\* C17, amended: within one send_to_phy the pacing delay elapses first, with the
\* payload not yet converted; then the argument is converted and transmitted
\* once to the phy address, the payload sent being the bit sequence of the
\* argument.
C17_DelayThenConvertThenSend ==
    [][/\ netPc = "send_to_phy" => netBits = NoBits
       /\ NetLeaves("send_to_phy") =>
             /\ netSlept >= FlowInterval
             /\ netBits' = string_to_bits(netArg)
             /\ OneMoreAt(net_phy, net_port)
             /\ inbox'[net_phy][Len(inbox'[net_phy])].payload = string_to_bits(netArg)
       /\ netPc = "send_to_phy" /\ netPc' = "send_to_phy" =>
             inbox'[net_phy] = inbox[net_phy]]_vars

\* C17 witness: a send_to_phy of a two-byte character has waited, converted and
\* transmitted the sixteen bits.
C17_Witness ==
    /\ netPc = "ret_send_to_phy"
    /\ netArg = <<"e_acute">>
    /\ netSlept = FlowInterval
    /\ netBits = string_to_bits(netArg)
    /\ Len(netBits) = 16
    /\ inbox[net_phy][Len(inbox[net_phy])].payload = netBits

\* C15: receive_from_phy(T) is a bounded wait. It never waits beyond T, its
\* timeout is not changed and its wait not started again; it takes at most one
\* datagram from the Net endpoint, and the step that takes it ends the call; it
\* ends without a datagram exactly when T has elapsed on an empty queue.
C15_BoundedWait ==
    /\ [](netPc = "receive_from_phy" => netWaited <= netTimeout)
    /\ [][netPc = "receive_from_phy" =>
             /\ netPc' = "receive_from_phy" =>
                   /\ netTimeout' = netTimeout
                   /\ netWaited' >= netWaited
                   /\ Len(inbox'[net_port]) >= Len(inbox[net_port])
             /\ netPc' # "receive_from_phy" =>
                   \/ inbox[net_port] # <<>> /\ inbox'[net_port] = Tail(inbox[net_port])
                   \/ /\ inbox[net_port] = <<>> /\ inbox' = inbox
                      /\ netWaited = netTimeout
                      /\ ~netRet'.ok]_vars

\* C15 witness: a receive_from_phy has ended before its timeout on the datagram of
\* a foreign sender, with further datagrams still queued.
C15_Witness ==
    /\ netPc = "ret_receive_from_phy"
    /\ netRet.ok
    /\ netPortVar \in ForeignAddrs
    /\ netWaited < netTimeout
    /\ inbox[net_port] # <<>>

Pending(port, peer) == \E i \in 1..Len(inbox[port]) : inbox[port][i].src = peer

\* C14: receive_from_net and receive_from_app block until a datagram of their
\* peer is delivered: a call of either returns only in a step that takes a
\* datagram of the peer from its endpoint, so never while none has been
\* delivered; and when one is queued at the endpoint, the call does return.
C14_BlocksUntilPeerDatagram ==
    /\ [][/\ AppReturns("receive_from_net") =>
                /\ Pending(app_port, app_net)
                /\ Head(inbox[app_port]).src = app_net
                /\ inbox'[app_port] = Tail(inbox[app_port])
          /\ NetLeaves("receive_from_app") =>
                /\ Pending(net_port, net_app)
                /\ Head(inbox[net_port]).src = net_app
                /\ inbox'[net_port] = Tail(inbox[net_port])]_vars
    /\ (appPc = "receive_from_net" /\ Pending(app_port, app_net))
          ~> (appPc = "ret_receive_from_net")
    /\ (netPc = "receive_from_app" /\ Pending(net_port, net_app))
          ~> (netPc = "ret_receive_from_app")

\* C14 witness: both filtering receives have returned, the one of the Network
\* layer after a datagram of the phy address had kept it waiting.
C14_Witness ==
    /\ appPc = "ret_receive_from_net"
    /\ netPc = "ret_receive_from_app"
    /\ phyLost >= 1

\* C16: every turn of a filtering receive takes the datagram at the head of its
\* endpoint and no other. If the peer sent it, the call returns its payload, which
\* is therefore the payload of the earliest datagram of the peer that was queued;
\* if not, the datagram is gone from the queue, nothing is returned, and the call
\* goes on. A call that returns has thus taken at least one datagram.
C16_FilteringConsumesInOrder ==
    [][/\ (appPc = "receive_from_net" /\ inbox'[app_port] # inbox[app_port]
             /\ Len(inbox'[app_port]) <= Len(inbox[app_port]))
          =>
             /\ inbox[app_port] # <<>>
             /\ inbox'[app_port] = Tail(inbox[app_port])
             /\ IF Head(inbox[app_port]).src = app_net
                THEN /\ appPc' = "ret_receive_from_net"
                     /\ appRet' = Head(inbox[app_port]).payload
                     /\ appRet' = FirstFrom(inbox[app_port], app_net)
                ELSE appPc' = "receive_from_net" /\ appRet' = <<>>
       /\ (netPc = "receive_from_app" /\ inbox'[net_port] # inbox[net_port]
             /\ Len(inbox'[net_port]) <= Len(inbox[net_port]))
          =>
             /\ inbox[net_port] # <<>>
             /\ inbox'[net_port] = Tail(inbox[net_port])
             /\ IF Head(inbox[net_port]).src = net_app
                THEN /\ netPc' = "ret_receive_from_app"
                     /\ netRet'.msg = Head(inbox[net_port]).payload
                     /\ netRet'.msg = FirstFrom(inbox[net_port], net_app)
                ELSE netPc' = "receive_from_app" /\ netRet' = NoRet
       /\ AppReturns("receive_from_net") => Len(inbox'[app_port]) = Len(inbox[app_port]) - 1
       /\ NetLeaves("receive_from_app") => Len(inbox'[net_port]) = Len(inbox[net_port]) - 1]_vars

\* C16 witness: receive_from_app has returned the message of the application
\* after dropping two datagrams queued before it, and none of them is left.
C16_Witness ==
    /\ netPc = "ret_receive_from_app"
    /\ netRet.msg = <<"h", "i">>
    /\ phyLost = 1
    /\ sends = MaxSends
    /\ inbox[net_port] = <<>>
    /\ inbox[app_port] = <<>>

\* C18: a constructor looks its device up before it binds. Until the lookup has
\* succeeded the layer has bound no endpoint and recorded no peer address, and
\* when the identifier is unknown the constructor raises in that state; an
\* unknown identifier gets no further. A constructor that completes has bound
\* exactly its own address of the device's triple (app for the Application
\* layer, net for the Network layer) and recorded the other address(es).
C18_LookupPrecedesBind ==
    /\ DOMAIN inbox = {p \in {app_port, net_port} : p # Unset}
    /\ appPc \in {"new", "init_lookup", "raised"} => app_port = Unset /\ app_net = Unset
    /\ netPc \in {"new", "init_lookup", "raised"} =>
          net_port = Unset /\ net_app = Unset /\ net_phy = Unset
    /\ appPc = "raised" <=> (appPc \notin {"new", "init_lookup"} /\ appArg \notin DeviceIds)
    /\ netPc = "raised" <=> (netPc \notin {"new", "init_lookup"} /\ netArg \notin DeviceIds)
    /\ appPc = "idle" =>
          /\ app_device_id = appArg
          /\ app_port = get_device_map(appArg).app
          /\ app_net = get_device_map(appArg).net
    /\ netPc = "idle" =>
          /\ net_port = get_device_map(netArg).net
          /\ net_app = get_device_map(netArg).app
          /\ net_phy = get_device_map(netArg).phy

\* C18 witness: the Application layer of device 3 is constructed and bound, and
\* the Network layer, given an identifier the device map does not hold, has
\* raised with nothing bound or recorded.
C18_Witness ==
    /\ appPc = "idle"
    /\ appArg = <<"3">>
    /\ netPc = "raised"
    /\ netArg = <<"1", "0">>
    /\ DOMAIN inbox = {<<"1", "3", "3", "0", "0">>}
    /\ net_port = Unset

====
